---- MODULE Spec2Model ----
(***************************************************************************)
(* FileWalker / Engine of the file search (fileSearch part of              *)
(* src/src/vs/workbench/api/node/extHostWebview.ts, lines 201-455), with   *)
(* ExtHostWebview / ExtHostWebviews (lines 13-180) and FoldingController   *)
(* (lines 1451-1660) of the same file, each under a specification of its   *)
(* own.                                                                    *)
(*                                                                         *)
(* Strings are sequences of one-character strings, so that join, trim,     *)
(* equality of paths and the fuzzy match are computed and not assumed.     *)
(* The platform is POSIX: paths.sep is "/".                                *)
(***************************************************************************)
EXTENDS Integers, Sequences, FiniteSets, TLC

(***************************************************************************)
(* Bounds of the model.                                                    *)
(***************************************************************************)
\* longest list of root folders handed to walk()
MaxRoots == 2
\* largest maxResults of a configuration (0 stands for "not set")
MaxResultsBound == 2

\* how many webviews are created
MaxWebviews == 1

\* how far FoldingController.computeToken is counted
MaxComputeToken == 3

(***************************************************************************)
(* Strings.                                                                *)
(***************************************************************************)
Sep == "/"

EmptyStr == << >>

\* paths.isAbsolute (posix)
isAbsolute(s) == Len(s) > 0 /\ s[1] = Sep

\* s.indexOf(c) >= 0
Contains(s, c) == \E i \in 1..Len(s) : s[i] = c

\* strings.replaceAll(s, from, to) for one-character from/to
replaceAll(s, from, to) == [i \in 1..Len(s) |-> IF s[i] = from THEN to ELSE s[i]]

RECURSIVE ltrim(_, _)
ltrim(s, c) == IF Len(s) > 0 /\ s[1] = c THEN ltrim(Tail(s), c) ELSE s

RECURSIVE rtrim(_, _)
rtrim(s, c) == IF Len(s) > 0 /\ s[Len(s)] = c THEN rtrim(SubSeq(s, 1, Len(s) - 1), c) ELSE s

\* strings.trim(s, c)
trim(s, c) == rtrim(ltrim(s, c), c)

\* [a, b].join('/')
joinSlash(a, b) == a \o <<Sep>> \o b

\* paths.join(base, rest) for an absolute base and a rest without "." or ".."
pathsJoin(base, rest) == rtrim(base, Sep) \o <<Sep>> \o ltrim(rest, Sep)

\* the segments of a path, split at "/" (empty segments dropped)
RECURSIVE Segments(_)
Segments(s) ==
    IF Len(s) = 0 THEN << >>
    ELSE IF s[1] = Sep THEN Segments(Tail(s))
    ELSE LET n == CHOOSE k \in 1..Len(s) :
                     /\ \A i \in 1..k : s[i] # Sep
                     /\ (k = Len(s) \/ s[k + 1] = Sep)
         IN <<SubSeq(s, 1, n)>> \o Segments(SubSeq(s, n + 1, Len(s)))

\* word is a subsequence of text
RECURSIVE IsSubsequence(_, _)
IsSubsequence(word, text) ==
    IF Len(word) = 0 THEN TRUE
    ELSE IF Len(text) = 0 THEN FALSE
    ELSE IF word[1] = text[1] THEN IsSubsequence(Tail(word), Tail(text))
    ELSE IsSubsequence(word, Tail(text))

\* filters.matchesFuzzy(word, text, true): null or a non-empty list of matches
matchesFuzzy(word, text) == Len(word) > 0 /\ IsSubsequence(word, text)

(***************************************************************************)
(* The filesystem the search runs on.                                      *)
(*   /r        directory   a  l                                            *)
(*   /r/a      directory   f  g                                            *)
(*   /r/a/f    file                                                        *)
(*   /r/a/g    file                                                        *)
(*   /r/l      symbolic link to /r (a link to its own parent directory)    *)
(*   /x/f /x/g /a/h   files outside every root                             *)
(***************************************************************************)
P_r == <<"/", "r">>
P_ra == <<"/", "r", "/", "a">>
P_raf == <<"/", "r", "/", "a", "/", "f">>
P_rag == <<"/", "r", "/", "a", "/", "g">>
P_rl == <<"/", "r", "/", "l">>
P_xf == <<"/", "x", "/", "f">>
P_xg == <<"/", "x", "/", "g">>
P_ah == <<"/", "a", "/", "h">>

N_a == <<"a">>
N_f == <<"f">>
N_g == <<"g">>
N_l == <<"l">>

FSKind ==
    (P_r :> "dir") @@ (P_ra :> "dir") @@ (P_raf :> "file") @@ (P_rag :> "file")
    @@ (P_rl :> "link") @@ (P_xf :> "file") @@ (P_xg :> "file") @@ (P_ah :> "file")

FSChildren == (P_r :> <<N_a, N_l>>) @@ (P_ra :> <<N_f, N_g>>)

FSTarget == (P_rl :> P_r)

Exists(p) == p \in DOMAIN FSKind

\* fs.lstat: the entry itself; a symbolic link is neither a directory nor a file
lstatOf(p) == [isDirectory |-> FSKind[p] = "dir", isSymbolicLink |-> FSKind[p] = "link"]

\* fs.stat: follows a symbolic link
statOf(p) == LET q == IF FSKind[p] = "link" THEN FSTarget[p] ELSE p
             IN [isDirectory |-> FSKind[q] = "dir"]

\* fs.realpath
realpathOf(p) == IF FSKind[p] = "link" THEN FSTarget[p] ELSE p

(***************************************************************************)
(* glob.match(expression, path, siblings).  An expression is one of        *)
(*   [kind |-> "none"]     no expression (null): matches nothing           *)
(*   [kind |-> "segment"]  **/name/**: the path has a segment name         *)
(*   [kind |-> "sibling"]  {"**/name": {when: w}}: the last segment is     *)
(*                         name and w is among the siblings                *)
(***************************************************************************)
NoExpr == [kind |-> "none", name |-> EmptyStr, when |-> EmptyStr]

SegmentExpr(n) == [kind |-> "segment", name |-> n, when |-> EmptyStr]

SiblingExpr(n, w) == [kind |-> "sibling", name |-> n, when |-> w]

globMatch(expression, path, siblings) ==
    LET segs == Segments(path)
    IN CASE expression.kind = "none" -> FALSE
         [] expression.kind = "segment" ->
                \E i \in 1..Len(segs) : segs[i] = expression.name
         [] expression.kind = "sibling" ->
                /\ Len(segs) > 0
                /\ segs[Len(segs)] = expression.name
                /\ \E i \in 1..Len(siblings) : siblings[i] = expression.when

(***************************************************************************)
(* State.  config is the IRawSearch handed to the constructors, the next   *)
(* block is the fields of FileWalker and Engine, then the filesystem       *)
(* calls in flight, the flow.parallel joins, and what the caller saw.      *)
(***************************************************************************)
VARIABLES
    config,        \* IRawSearch
    failing,       \* environment: the <<call, path>> pairs that fail
    rootFolders,   \* Engine.rootFolders
    extraFiles,    \* Engine.extraFiles
    filePattern,   \* FileWalker.filePattern (normalized)
    excludePattern,
    includePattern,
    maxResults,    \* 0 is null
    searchInPath,
    isLimitHit,
    resultCount,
    isCanceled,
    walkedPaths,
    started,       \* walk() has been called
    pending,       \* filesystem calls whose callback has not run yet
    joins,         \* flow.parallel: one record per call that has not been dropped
    results,       \* the onResult invocations: a bag of [path, via, ri]
    doneArgs,      \* the done invocations, in order
    entered,       \* how often doWalk has been started on a directory
    fsErrors,      \* the <<call, path>> pairs whose callback was handed an error
    progress,      \* the onProgress invocations, in order
    previous       \* the result paths of the search made before this one, if any

cfgVars == <<config, failing, rootFolders, extraFiles, filePattern, excludePattern,
             includePattern, maxResults, searchInPath>>

walkVars == <<isLimitHit, resultCount, walkedPaths, started, pending, joins, results,
              doneArgs, entered>>

histVars == <<fsErrors, progress, previous>>

searchVars == <<cfgVars, isCanceled, walkVars, histVars>>

(***************************************************************************)
(* The state of the webviews of the extension host: the fields of          *)
(* ExtHostWebviews and of each ExtHostWebview, then what the last          *)
(* operation sent to the main-thread proxy, threw and fired.               *)
(***************************************************************************)
VARIABLES
    handlePool,    \* ExtHostWebviews.handlePool: the next handle
    webviews,      \* ExtHostWebviews._webviews: the handles in the map
    isDisposed,    \* ExtHostWebview._isDisposed, by handle
    title,         \* ExtHostWebview._title, by handle
    html,          \* ExtHostWebview._html, by handle
    viewColumn,    \* ExtHostWebview._viewColumn, by handle
    disposeCalls,  \* how often dispose() was called, by handle, counted up to 2
    disposeSent,   \* how often $disposeWebview was sent, by handle
    proxySent,     \* the proxy calls of the last operation: [call, handle, disposed]
    thrown,        \* the last operation if it threw: [op, handle]
    fired          \* the events the last operation delivered: [event, handle]

webviewVars == <<handlePool, webviews, isDisposed, title, html, viewColumn, disposeCalls,
                 disposeSent, proxySent, thrown, fired>>

(***************************************************************************)
(* The state of a FoldingController: the editor it is attached to, its     *)
(* fields, the computations of regions under way and their outcome.        *)
(***************************************************************************)
VARIABLES
    editorModel,   \* editor.getModel(): 0 is null, else the model and its content
    folding,       \* editor.getConfiguration().folding
    computeToken,  \* FoldingController.computeToken
    localToDispose,\* FoldingController.localToDispose is not empty
    scheduled,     \* contentChangedScheduler has a timer running
    computing,     \* the promises of computeCollapsibleRegions not yet resolved
    decorations,   \* FoldingController.decorations: the request they were computed for
    applied,       \* the requests whose regions were handed to applyRegions
    controllerDisposed  \* FoldingController.dispose() was called

foldingVars == <<editorModel, folding, computeToken, localToDispose, scheduled, computing,
                 decorations, applied, controllerDisposed>>

uiVars == <<webviewVars, foldingVars>>

vars == <<searchVars, uiVars>>

(***************************************************************************)
(* The configurations explored.                                            *)
(***************************************************************************)
\* The lists of root folders, up to their order: the roots are read and walked alike
\* whatever their place in the list, so an outer root is listed before an inner one.
RootChoices ==
    {r \in UNION {[1..n -> {P_r, P_ra}] : n \in 0..MaxRoots} :
        \A i \in 1..Len(r) : \A j \in i..Len(r) : Len(r[i]) <= Len(r[j])}

ExtraChoices == {<< >>, <<P_xf>>, <<P_xf, P_xg, P_ah>>}

\* none, a plain name, a relative path, an absolute file, an absolute directory
PatternChoices == {EmptyStr, N_f, <<"a", "/", "f">>, P_raf, P_ra}

ExcludeChoices == {NoExpr, SegmentExpr(N_a), SiblingExpr(N_f, N_g)}

IncludeChoices == {NoExpr, SegmentExpr(N_g)}

FailChoices ==
    {{}, {<<"readdir", P_r>>}, {<<"lstat", P_ra>>}, {<<"readdir", P_ra>>},
     {<<"lstat", P_raf>>}, {<<"lstat", P_rag>>}}

ConfigChoices ==
    [rootFolders : RootChoices, extraFiles : ExtraChoices, filePattern : PatternChoices,
     excludePattern : ExcludeChoices, includePattern : IncludeChoices,
     maxResults : 0..MaxResultsBound]

\* ExtHostWebviews before any webview is created
NoWebview ==
    /\ handlePool = 0
    /\ webviews = {}
    /\ isDisposed = << >>
    /\ title = << >>
    /\ html = << >>
    /\ viewColumn = << >>
    /\ disposeCalls = << >>
    /\ disposeSent = << >>
    /\ proxySent = {}
    /\ thrown = {}
    /\ fired = {}

\* constructor of FoldingController, on an editor that has a model and folding enabled:
\* its call of onModelChanged() installs the local listeners and schedules a computation
NewController ==
    /\ editorModel = 1
    /\ folding = TRUE
    /\ computeToken = 0
    /\ localToDispose = TRUE
    /\ scheduled = TRUE
    /\ computing = {}
    /\ decorations = {}
    /\ applied = {}
    /\ controllerDisposed = FALSE

\* constructor of FileWalker: the normalized file pattern
normalizedPattern(p) ==
    IF Len(p) > 0 /\ Contains(p, Sep) THEN replaceAll(p, "\\", "/") ELSE p

Init ==
    /\ config \in ConfigChoices
    /\ failing \in FailChoices
    \* an include pattern is explored with no exclude pattern and no failing call
    /\ config.includePattern # NoExpr => (config.excludePattern = NoExpr /\ failing = {})
    /\ rootFolders = config.rootFolders
    /\ extraFiles = config.extraFiles
    /\ filePattern = normalizedPattern(config.filePattern)
    /\ excludePattern = config.excludePattern
    /\ includePattern = config.includePattern
    /\ maxResults = config.maxResults
    /\ searchInPath = (Len(config.filePattern) > 0 /\ Contains(config.filePattern, Sep))
    /\ isLimitHit = FALSE
    /\ resultCount = 0
    /\ isCanceled = FALSE
    /\ walkedPaths = {}
    /\ started = FALSE
    /\ pending = {}
    /\ joins = << >>
    /\ results = << >>
    /\ doneArgs = << >>
    /\ entered = << >>
    /\ fsErrors = {}
    /\ progress = << >>
    /\ previous = [ran |-> FALSE, paths |-> {}]
    /\ NoWebview
    /\ NewController

(***************************************************************************)
(* The walk state as one record, so that every handler is a function from  *)
(* the state before its callback to the state after it.                    *)
(***************************************************************************)
cur ==
    [isLimitHit |-> isLimitHit, resultCount |-> resultCount, walkedPaths |-> walkedPaths,
     pending |-> pending, joins |-> joins, results |-> results, doneArgs |-> doneArgs,
     entered |-> entered]

Set(s) ==
    /\ isLimitHit' = s.isLimitHit
    /\ resultCount' = s.resultCount
    /\ walkedPaths' = s.walkedPaths
    /\ pending' = s.pending
    /\ joins' = s.joins
    /\ results' = s.results
    /\ doneArgs' = s.doneArgs
    /\ entered' = s.entered

\* a filesystem call in flight: the call, the root it belongs to, the index of its
\* entry in the list flow.parallel runs over, the directory of that list, the path
\* the call is on and the entry's root-relative path
Op(kind, ri, idx, dir, path, rel) ==
    [kind |-> kind, ri |-> ri, idx |-> idx, dir |-> dir, path |-> path, rel |-> rel]

\* the call of this kind on this path ends with an error
Fails(call, path) == <<call, path>> \in failing \/ ~Exists(path)

\* the join of walk() over the root folders, and the join of doWalk over a directory
Top == <<0, EmptyStr>>

Group(ri, dir) == <<ri, dir>>

\* a bag as a function from elements to counts
Inc(b, x) == IF x \in DOMAIN b THEN [b EXCEPT ![x] = @ + 1] ELSE b @@ (x :> 1)

\* onResult(...)
onResult(s, path, via, ri) ==
    [s EXCEPT !.results = Inc(@, [path |-> path, via |-> via, ri |-> ri])]

\* done(error, isLimitHit)
done(s, error, limit) ==
    [s EXCEPT !.doneArgs = Append(@, [error |-> error, isLimitHit |-> limit])]

(***************************************************************************)
(* flow.parallel(list, fn, callback): the per-item callback counts the     *)
(* items that are done and records an error at the item's index; the last  *)
(* one invokes callback with the errors (or null when there were none).    *)
(* An empty list invokes callback at once.                                 *)
(***************************************************************************)
NewJoin(done0, total, parent, parentIdx) ==
    [doneCount |-> done0, total |-> total, errors |-> {}, parent |-> parent,
     parentIdx |-> parentIdx]

RECURSIVE clb(_, _, _, _)
RECURSIVE joinCallback(_, _)
\* the callback handed to fn for item idx of the join g
clb(s, g, idx, error) ==
    LET r == [s.joins[g] EXCEPT !.doneCount = @ + 1,
                                !.errors = IF error THEN @ \cup {idx} ELSE @]
        s1 == [s EXCEPT !.joins[g] = r]
    IN IF r.doneCount = r.total THEN joinCallback(s1, g) ELSE s1

\* the callback of the join g: walk's (err, result) => done(err ? err[0] : null, ...)
\* for the roots, doWalk's error-coalescing one for a directory
joinCallback(s, g) ==
    LET r == s.joins[g]
    IN IF g = Top
       THEN done(s, 1 \in r.errors, s.isLimitHit)
       ELSE clb(s, r.parent, r.parentIdx, r.errors # {})

(***************************************************************************)
(* FileWalker                                                              *)
(***************************************************************************)
isFilePatternMatch(path) ==
    IF Len(filePattern) > 0 THEN matchesFuzzy(filePattern, path) ELSE TRUE

\* mutant of countAndReport: the result that crosses the cap is still reported
countAndReport_ReportsCrossing(s, absolutePath, ri) ==
    LET n == s.resultCount + 1
        hit == s.isLimitHit \/ (maxResults # 0 /\ n > maxResults)
        s1 == [s EXCEPT !.resultCount = n, !.isLimitHit = hit]
    IN IF ~s.isLimitHit THEN onResult(s1, absolutePath, "match", ri) ELSE s1

\* mutant of countAndReport: the limit is hit by the result that reaches the cap
countAndReport_HitAtCap(s, absolutePath, ri) ==
    LET n == s.resultCount + 1
        hit == s.isLimitHit \/ (maxResults # 0 /\ n >= maxResults)
        s1 == [s EXCEPT !.resultCount = n, !.isLimitHit = hit]
    IN IF ~hit THEN onResult(s1, absolutePath, "match", ri) ELSE s1

\* the result is counted and, below the cap, reported
countAndReport(s, absolutePath, ri) ==
    LET n == s.resultCount + 1
        hit == s.isLimitHit \/ (maxResults # 0 /\ n > maxResults)
        s1 == [s EXCEPT !.resultCount = n, !.isLimitHit = hit]
    IN IF ~hit THEN onResult(s1, absolutePath, "match", ri) ELSE s1

matchFile(s, ri, absolutePath, relativePath) ==
    IF /\ isFilePatternMatch(relativePath)
       /\ (includePattern.kind = "none" \/ globMatch(includePattern, relativePath, << >>))
    THEN countAndReport(s, absolutePath, ri)
    ELSE s

\* mutant of extraFilesFrom: the exclude pattern is not applied to the extra files
RECURSIVE extraFilesFrom_NoExclude(_, _)
extraFilesFrom_NoExclude(s, i) ==
    IF i > Len(extraFiles) THEN s
    ELSE extraFilesFrom_NoExclude(matchFile(s, 0, extraFiles[i], extraFiles[i]), i + 1)

\* extraFiles.forEach(...) from item i on
RECURSIVE extraFilesFrom(_, _)
extraFilesFrom(s, i) ==
    IF i > Len(extraFiles) THEN s
    ELSE IF globMatch(excludePattern, extraFiles[i], << >>)
         THEN extraFilesFrom(s, i + 1)
         ELSE extraFilesFrom(matchFile(s, 0, extraFiles[i], extraFiles[i]), i + 1)

\* mutant of stops: the canceled flag is not looked at
stops_NoCancel(s, error) == error \/ s.isLimitHit

\* the check that ends a branch: an error, a cancel or the limit
stops(s, error) == error \/ isCanceled \/ s.isLimitHit

\* relativeFilePath of an entry
relativeFilePath(relativeParentPath, file) == trim(joinSlash(relativeParentPath, file), Sep)

\* mutant of siblingsOf: the full list also for the entry named by the file pattern
siblingsOf_NeverEmpty(files, file) == files

\* the siblings handed to the exclude pattern for an entry
siblingsOf(files, file) == IF config.filePattern = file THEN << >> ELSE files

\* the entry is dropped by doWalk before any filesystem call
excluded(relativeParentPath, files, i) ==
    globMatch(excludePattern, relativeFilePath(relativeParentPath, files[i]),
              siblingsOf(files, files[i]))

\* the items of doWalk's list whose fn has called clb when fn returns
syncDone(s, relativeParentPath, files) ==
    {i \in 1..Len(files) : stops(s, FALSE) \/ excluded(relativeParentPath, files, i)}

\* doWalk(absolutePath, relativeParentPath, files, onResult, done), where done is the
\* per-item callback idx of the join parent
doWalk(s, ri, parent, idx, absolutePath, relativeParentPath, files) ==
    LET g == Group(ri, absolutePath)
        sync == syncDone(s, relativeParentPath, files)
        ops == {Op("lstat", ri, i, absolutePath, pathsJoin(absolutePath, files[i]),
                   relativeFilePath(relativeParentPath, files[i])) :
                i \in (1..Len(files)) \ sync}
        s1 == [s EXCEPT !.joins = (g :> NewJoin(Cardinality(sync), Len(files), parent, idx)) @@ @,
                        !.pending = @ \cup ops,
                        !.entered = Inc(@, absolutePath)]
    IN IF Cardinality(sync) = Len(files) THEN joinCallback(s1, g) ELSE s1

\* flow.parallel(rootFolders, ...): one extfs.readdir per root folder
rootReads == {Op("readdirRoot", i, i, EmptyStr, rootFolders[i], EmptyStr) :
              i \in 1..Len(rootFolders)}

\* mutant of walkCallback: no return after the absolute match is reported
walkCallback_NoShortcut(s, exists) ==
    IF isCanceled THEN done(s, FALSE, s.isLimitHit)
    ELSE LET s0 == IF exists THEN done(onResult(s, filePattern, "abs", 0), FALSE, s.isLimitHit)
                   ELSE s
             s1 == extraFilesFrom(s0, 1)
             s2 == [s1 EXCEPT !.joins = (Top :> NewJoin(0, Len(rootFolders), Top, 0)) @@ @,
                              !.pending = @ \cup rootReads]
         IN IF Len(rootFolders) = 0 THEN joinCallback(s2, Top) ELSE s2

\* mutant of walkCallback: the canceled flag is not looked at
walkCallback_NoCancelCheck(s, exists) ==
    IF exists THEN done(onResult(s, filePattern, "abs", 0), FALSE, s.isLimitHit)
    ELSE LET s1 == extraFilesFrom(s, 1)
             s2 == [s1 EXCEPT !.joins = (Top :> NewJoin(0, Len(rootFolders), Top, 0)) @@ @,
                              !.pending = @ \cup rootReads]
         IN IF Len(rootFolders) = 0 THEN joinCallback(s2, Top) ELSE s2

\* the callback of checkFilePatternAbsoluteMatch in walk()
walkCallback(s, exists) ==
    IF isCanceled THEN done(s, FALSE, s.isLimitHit)
    ELSE IF exists THEN done(onResult(s, filePattern, "abs", 0), FALSE, s.isLimitHit)
    ELSE LET s1 == extraFilesFrom(s, 1)
             s2 == [s1 EXCEPT !.joins = (Top :> NewJoin(0, Len(rootFolders), Top, 0)) @@ @,
                              !.pending = @ \cup rootReads]
         IN IF Len(rootFolders) = 0 THEN joinCallback(s2, Top) ELSE s2

\* checkFilePatternAbsoluteMatch calls back at once, without a filesystem call
absoluteMatchIsSync == Len(filePattern) = 0 \/ ~isAbsolute(filePattern)

\* checkFilePatternRelativeMatch calls back at once, without a filesystem call
relativeMatchIsSync == Len(filePattern) = 0 \/ isAbsolute(filePattern) \/ ~searchInPath

\* the callback of checkFilePatternRelativeMatch for root ri, match being the path found
\* (EmptyStr for null)
relativeMatchCallback(s, ri, match) ==
    IF stops(s, FALSE) THEN clb(s, Top, ri, FALSE)
    ELSE LET s1 == IF Len(match) > 0 THEN onResult(s, match, "rel", ri) ELSE s
         IN doWalk(s1, ri, Top, ri, rootFolders[ri], EmptyStr, FSChildren[rootFolders[ri]])

\* mutant of rootReaddirCallback: the walk of the root starts while the stat of the
\* relative match is still in flight
rootReaddirCallback_WalkAtOnce(s, op) ==
    IF stops(s, Fails("readdir", op.path)) THEN clb(s, Top, op.ri, FALSE)
    ELSE IF relativeMatchIsSync THEN relativeMatchCallback(s, op.ri, EmptyStr)
    ELSE doWalk([s EXCEPT !.pending = @ \cup
                    {Op("statRel", op.ri, op.idx, EmptyStr, pathsJoin(op.path, filePattern),
                        EmptyStr)}],
                op.ri, Top, op.ri, rootFolders[op.ri], EmptyStr, FSChildren[rootFolders[op.ri]])

\* mutant of rootReaddirCallback: a root that cannot be read reports an error
rootReaddirCallback_ReportsError(s, op) ==
    IF stops(s, Fails("readdir", op.path)) THEN clb(s, Top, op.ri, Fails("readdir", op.path))
    ELSE IF relativeMatchIsSync THEN relativeMatchCallback(s, op.ri, EmptyStr)
    ELSE [s EXCEPT !.pending = @ \cup
              {Op("statRel", op.ri, op.idx, EmptyStr, pathsJoin(op.path, filePattern), EmptyStr)}]

\* the callback of extfs.readdir on a root folder
rootReaddirCallback(s, op) ==
    IF stops(s, Fails("readdir", op.path)) THEN clb(s, Top, op.ri, FALSE)
    ELSE IF relativeMatchIsSync THEN relativeMatchCallback(s, op.ri, EmptyStr)
    ELSE [s EXCEPT !.pending = @ \cup
              {Op("statRel", op.ri, op.idx, EmptyStr, pathsJoin(op.path, filePattern), EmptyStr)}]

\* the callback of fs.stat in checkFilePatternRelativeMatch
relativeStatCallback(s, op) ==
    relativeMatchCallback(s, op.ri,
        IF ~Fails("stat", op.path) /\ ~statOf(op.path).isDirectory THEN op.path ELSE EmptyStr)

\* mutant of realPathCallback: the entry is reported done before its directory is read
realPathCallback_EarlyClb(s, op, error, realpath) ==
    IF stops(s, error) THEN clb(s, Group(op.ri, op.dir), op.idx, FALSE)
    ELSE IF realpath \in s.walkedPaths THEN clb(s, Group(op.ri, op.dir), op.idx, FALSE)
    ELSE clb([s EXCEPT !.walkedPaths = @ \cup {realpath},
                       !.pending = @ \cup {[op EXCEPT !.kind = "readdir"]}],
             Group(op.ri, op.dir), op.idx, FALSE)

\* mutant of realPathCallback: the real path is checked but not remembered
realPathCallback_NoInsert(s, op, error, realpath) ==
    IF stops(s, error) THEN clb(s, Group(op.ri, op.dir), op.idx, FALSE)
    ELSE IF realpath \in s.walkedPaths THEN clb(s, Group(op.ri, op.dir), op.idx, FALSE)
    ELSE [s EXCEPT !.pending = @ \cup {[op EXCEPT !.kind = "readdir"]}]

\* the callback of realPathIfNeeded in doWalk
realPathCallback(s, op, error, realpath) ==
    IF stops(s, error) THEN clb(s, Group(op.ri, op.dir), op.idx, FALSE)
    ELSE IF realpath \in s.walkedPaths THEN clb(s, Group(op.ri, op.dir), op.idx, FALSE)
    ELSE [s EXCEPT !.walkedPaths = @ \cup {realpath},
                   !.pending = @ \cup {[op EXCEPT !.kind = "readdir"]}]

\* realPathIfNeeded(path, lstat, clb)
realPathIfNeeded(s, op, lstat) ==
    IF lstat.isSymbolicLink
    THEN [s EXCEPT !.pending = @ \cup {[op EXCEPT !.kind = "realpath"]}]
    ELSE realPathCallback(s, op, FALSE, op.path)

\* mutant of fileEntry: the file named by the file pattern is not skipped
fileEntry_NoSkip(s, op) == matchFile(s, op.ri, op.path, op.rel)

\* the file branch of the lstat callback, up to (not including) the unwinding clb
fileEntry(s, op) ==
    IF op.rel = filePattern THEN s ELSE matchFile(s, op.ri, op.path, op.rel)

\* mutant of lstatCallback: the file branch does not unwind (no clb after matchFile)
lstatCallback_NoUnwind(s, op) ==
    IF stops(s, Fails("lstat", op.path)) THEN clb(s, Group(op.ri, op.dir), op.idx, FALSE)
    ELSE IF lstatOf(op.path).isDirectory THEN realPathIfNeeded(s, op, lstatOf(op.path))
    ELSE fileEntry(s, op)

\* mutant of lstatCallback: the error is thrown out of the callback, which ends the walk
lstatCallback_Throws(s, op) ==
    IF Fails("lstat", op.path) THEN [s EXCEPT !.pending = {}]
    ELSE IF stops(s, FALSE) THEN clb(s, Group(op.ri, op.dir), op.idx, FALSE)
    ELSE IF lstatOf(op.path).isDirectory THEN realPathIfNeeded(s, op, lstatOf(op.path))
    ELSE clb(fileEntry(s, op), Group(op.ri, op.dir), op.idx, FALSE)

\* mutant of lstatCallback: the canceled flag is not looked at before matchFile
lstatCallback_NoCancelCheck(s, op) ==
    IF Fails("lstat", op.path) \/ s.isLimitHit
    THEN clb(s, Group(op.ri, op.dir), op.idx, FALSE)
    ELSE IF lstatOf(op.path).isDirectory THEN realPathIfNeeded(s, op, lstatOf(op.path))
    ELSE clb(fileEntry(s, op), Group(op.ri, op.dir), op.idx, FALSE)

\* mutant of lstatCallback: the error of lstat is handed to the per-item callback
lstatCallback_ReportsError(s, op) ==
    IF stops(s, Fails("lstat", op.path))
    THEN clb(s, Group(op.ri, op.dir), op.idx, Fails("lstat", op.path))
    ELSE IF lstatOf(op.path).isDirectory THEN realPathIfNeeded(s, op, lstatOf(op.path))
    ELSE clb(fileEntry(s, op), Group(op.ri, op.dir), op.idx, FALSE)

\* the callback of fs.lstat in doWalk
lstatCallback(s, op) ==
    IF stops(s, Fails("lstat", op.path)) THEN clb(s, Group(op.ri, op.dir), op.idx, FALSE)
    ELSE IF lstatOf(op.path).isDirectory THEN realPathIfNeeded(s, op, lstatOf(op.path))
    ELSE clb(fileEntry(s, op), Group(op.ri, op.dir), op.idx, FALSE)

\* mutant of readdirCallback: a failed or stopped read returns without calling clb
readdirCallback_Silent(s, op) ==
    IF stops(s, Fails("readdir", op.path)) THEN s
    ELSE doWalk(s, op.ri, Group(op.ri, op.dir), op.idx, op.path, op.rel, FSChildren[op.path])

\* the callback of extfs.readdir on a directory below a root
readdirCallback(s, op) ==
    IF stops(s, Fails("readdir", op.path)) THEN clb(s, Group(op.ri, op.dir), op.idx, FALSE)
    ELSE doWalk(s, op.ri, Group(op.ri, op.dir), op.idx, op.path, op.rel, FSChildren[op.path])

\* the state with the call op returned
Returned(op) == [cur EXCEPT !.pending = @ \ {op}]

\* the filesystem call behind an operation in flight
CallOf(op) ==
    CASE op.kind \in {"statAbs", "statRel"} -> "stat"
      [] op.kind \in {"readdirRoot", "readdir"} -> "readdir"
      [] OTHER -> op.kind

\* the callback of op is handed the error of its call, if it failed
Observe(op) ==
    /\ fsErrors' = IF Fails(CallOf(op), op.path)
                   THEN fsErrors \cup {<<CallOf(op), op.path>>} ELSE fsErrors
    /\ UNCHANGED <<progress, previous, uiVars>>

(***************************************************************************)
(* Actions: the two public operations, and one per filesystem callback.    *)
(***************************************************************************)
\* Engine.search -> FileWalker.walk
walk ==
    /\ ~started
    /\ started' = TRUE
    /\ IF absoluteMatchIsSync
       THEN Set(walkCallback(cur, FALSE))
       ELSE Set([cur EXCEPT !.pending = {Op("statAbs", 0, 0, EmptyStr, filePattern, EmptyStr)}])
    /\ UNCHANGED <<cfgVars, isCanceled, histVars, uiVars>>

\* mutant of cancel: Engine.cancel also drops the filesystem calls in flight
cancel_DropsCalls ==
    /\ isCanceled' = TRUE
    /\ pending' = {}
    /\ UNCHANGED <<cfgVars, isLimitHit, resultCount, walkedPaths, started, joins, results,
                   doneArgs, entered, histVars, uiVars>>

\* mutant of cancel: a second call takes the cancellation back
cancel_Toggles ==
    /\ isCanceled' = ~isCanceled
    /\ UNCHANGED <<cfgVars, walkVars, histVars, uiVars>>

\* Engine.cancel -> FileWalker.cancel
cancel ==
    /\ isCanceled' = TRUE
    /\ UNCHANGED <<cfgVars, walkVars, histVars, uiVars>>

\* fs.stat of checkFilePatternAbsoluteMatch returns
absoluteStatReturns ==
    \E op \in pending :
        /\ op.kind = "statAbs"
        /\ Set(walkCallback(Returned(op),
                            ~Fails("stat", op.path) /\ ~statOf(op.path).isDirectory))
        /\ Observe(op)
        /\ UNCHANGED <<cfgVars, isCanceled, started>>

\* extfs.readdir of a root folder returns
rootReaddirReturns ==
    \E op \in pending :
        /\ op.kind = "readdirRoot"
        /\ Set(rootReaddirCallback(Returned(op), op))
        /\ Observe(op)
        /\ UNCHANGED <<cfgVars, isCanceled, started>>

\* fs.stat of checkFilePatternRelativeMatch returns
relativeStatReturns ==
    \E op \in pending :
        /\ op.kind = "statRel"
        /\ Set(relativeStatCallback(Returned(op), op))
        /\ Observe(op)
        /\ UNCHANGED <<cfgVars, isCanceled, started>>

\* fs.lstat of an entry returns, or the fs.realpath that realPathIfNeeded starts for an
\* entry that is a directory and a symbolic link at once (fs.lstat reports no such entry)
entryStatReturns ==
    \E op \in pending :
        /\ op.kind \in {"lstat", "realpath"}
        /\ IF op.kind = "lstat"
           THEN Set(lstatCallback(Returned(op), op))
           ELSE Set(realPathCallback(Returned(op), op, Fails("realpath", op.path),
                                     realpathOf(op.path)))
        /\ Observe(op)
        /\ UNCHANGED <<cfgVars, isCanceled, started>>

\* extfs.readdir of a directory below a root returns
readdirReturns ==
    \E op \in pending :
        /\ op.kind = "readdir"
        /\ Set(readdirCallback(Returned(op), op))
        /\ Observe(op)
        /\ UNCHANGED <<cfgVars, isCanceled, started>>

FsReturns ==
    \/ absoluteStatReturns
    \/ rootReaddirReturns
    \/ relativeStatReturns
    \/ entryStatReturns
    \/ readdirReturns

Next == walk \/ cancel \/ FsReturns

Spec == Init /\ [][Next]_vars

\* The searches whose termination is checked: one root or two nested ones, no pattern, a
\* relative or an absolute one, with and without a cap, an extra file and a failing call.
LiveInit ==
    /\ Init
    /\ config.rootFolders \in {<<P_r>>, <<P_r, P_ra>>}
    /\ config.filePattern \in {EmptyStr, <<"a", "/", "f">>, P_raf}
    /\ config.excludePattern = NoExpr
    /\ config.includePattern = NoExpr
    /\ config.maxResults \in {0, 1}
    /\ failing \in {{}, {<<"readdir", P_ra>>}, {<<"lstat", P_raf>>}}

\* every filesystem call that is started returns
FairSpec == LiveInit /\ [][Next]_vars /\ WF_vars(FsReturns)

\* The same search made a second time: once the first search is over, its result paths
\* are kept and a new Engine (and FileWalker) is constructed from the same
\* configuration, on the same filesystem.
searchAgain ==
    /\ started
    /\ pending = {}
    /\ Len(doneArgs) = 1
    /\ ~previous.ran
    /\ previous' = [ran |-> TRUE, paths |-> {r.path : r \in DOMAIN results}]
    /\ isLimitHit' = FALSE
    /\ resultCount' = 0
    /\ isCanceled' = FALSE
    /\ walkedPaths' = {}
    /\ started' = FALSE
    /\ pending' = {}
    /\ joins' = << >>
    /\ results' = << >>
    /\ doneArgs' = << >>
    /\ entered' = << >>
    /\ UNCHANGED <<cfgVars, fsErrors, progress, uiVars>>

\* The searches that are made twice: one root, no pattern, a relative or an absolute one,
\* no, one or three extra files, every cap, nothing excluded and no failing call.
TwoRunInit ==
    /\ Init
    /\ config.rootFolders \in {<<P_r>>, <<P_ra>>}
    /\ config.filePattern \in {EmptyStr, <<"a", "/", "f">>, P_raf, P_ra}
    /\ config.excludePattern = NoExpr
    /\ config.includePattern = NoExpr
    /\ failing = {}

\* no cancel in either search
TwoRunNext == walk \/ FsReturns \/ searchAgain

TwoRunSpec == TwoRunInit /\ [][TwoRunNext]_vars

\* walk() called a second time on the same FileWalker (search() on the same Engine) once
\* the first call is over: the caller keeps the result paths of the first call, and the
\* fields of the walker are what the first call left, as walk() assigns none of them.
walkAgain ==
    /\ started
    /\ pending = {}
    /\ Len(doneArgs) = 1
    /\ ~previous.ran
    /\ previous' = [ran |-> TRUE, paths |-> {r.path : r \in DOMAIN results}]
    /\ started' = FALSE
    /\ joins' = << >>
    /\ results' = << >>
    /\ doneArgs' = << >>
    /\ entered' = << >>
    /\ UNCHANGED <<cfgVars, isCanceled, isLimitHit, resultCount, walkedPaths, pending,
                   fsErrors, progress, uiVars>>

ReuseNext == walk \/ cancel \/ FsReturns \/ walkAgain

\* one walker used for two searches
ReuseSpec == TwoRunInit /\ [][ReuseNext]_vars

(***************************************************************************)
(* ExtHostWebview / ExtHostWebviews (lines 13-180). A title or an html is  *)
(* undefined or one value, so that a setter is called with the value the   *)
(* field has and with another one. A proxy call is kept with whether the   *)
(* webview was disposed when it was sent.                                  *)
(***************************************************************************)
Undefined == "undefined"

Titles == {"t"}

Htmls == {"h"}

ViewColumns == {1, 2}

\* the editor positions the main thread reports
Positions == {0, 1}

\* typeConverters.toViewColumn: Position.ONE is ViewColumn.One, and so on
toViewColumn(position) == position + 1

\* the handles the main thread may name, created or not
Handles == 0..(MaxWebviews - 1)

Created == DOMAIN isDisposed

\* ExtHostWebviews.getWebview
getWebview(h) == h \in webviews

\* a call on the main-thread proxy for the webview h
Sent(call, h) == {[call |-> call, handle |-> h, disposed |-> isDisposed[h]]}

\* what an operation sent to the proxy, whether it threw, what its emitters delivered
Outcome(s, t, f) ==
    /\ proxySent' = s
    /\ thrown' = t
    /\ fired' = f

\* assertNotDisposed() throws in the operation op of the webview h
Throws(op, h) ==
    /\ Outcome({}, {[op |-> op, handle |-> h]}, {})
    /\ UNCHANGED <<handlePool, webviews, isDisposed, title, html, viewColumn, disposeCalls,
                   disposeSent>>

\* Emitter.fire: the listeners are gone once the emitter is disposed
Fire(event, h) ==
    IF isDisposed[h] THEN {} ELSE {[event |-> event, handle |-> h]}

\* ExtHostWebviews.createWebview
createWebview ==
    /\ handlePool < MaxWebviews
    /\ \E column \in ViewColumns :
        LET handle == handlePool IN
        /\ handlePool' = handlePool + 1
        /\ Outcome({[call |-> "$createWebview", handle |-> handle, disposed |-> FALSE]},
                   {}, {})
        /\ isDisposed' = [h \in Created \cup {handle} |->
                              IF h = handle THEN FALSE ELSE isDisposed[h]]
        /\ title' = [h \in Created \cup {handle} |-> IF h = handle THEN Undefined ELSE title[h]]
        /\ html' = [h \in Created \cup {handle} |-> IF h = handle THEN Undefined ELSE html[h]]
        /\ viewColumn' = [h \in Created \cup {handle} |->
                              IF h = handle THEN column ELSE viewColumn[h]]
        /\ disposeCalls' = [h \in Created \cup {handle} |->
                                IF h = handle THEN 0 ELSE disposeCalls[h]]
        /\ disposeSent' = [h \in Created \cup {handle} |->
                               IF h = handle THEN 0 ELSE disposeSent[h]]
        /\ webviews' = webviews \cup {handle}
    /\ UNCHANGED <<searchVars, foldingVars>>

\* mutant of dispose: no check of _isDisposed
dispose_NoGuard(h) ==
    /\ disposeCalls' = [disposeCalls EXCEPT ![h] = IF @ < 2 THEN @ + 1 ELSE @]
    /\ isDisposed' = [isDisposed EXCEPT ![h] = TRUE]
    /\ disposeSent' = [disposeSent EXCEPT ![h] = @ + 1]
    /\ Outcome(Sent("$disposeWebview", h), {}, {})
    /\ UNCHANGED <<handlePool, webviews, title, html, viewColumn>>

\* ExtHostWebview.dispose
dispose(h) ==
    /\ disposeCalls' = [disposeCalls EXCEPT ![h] = IF @ < 2 THEN @ + 1 ELSE @]
    /\ IF isDisposed[h]
       THEN /\ Outcome({}, {}, {})
            /\ UNCHANGED <<handlePool, webviews, isDisposed, title, html, viewColumn,
                           disposeSent>>
       ELSE /\ isDisposed' = [isDisposed EXCEPT ![h] = TRUE]
            /\ disposeSent' = [disposeSent EXCEPT ![h] = @ + 1]
            /\ Outcome(Sent("$disposeWebview", h), {}, {})
            /\ UNCHANGED <<handlePool, webviews, title, html, viewColumn>>

disposeWebview ==
    /\ \E h \in Created : dispose(h)
    /\ UNCHANGED <<searchVars, foldingVars>>

\* set title
setTitle ==
    /\ \E h \in Created, value \in Titles :
        IF isDisposed[h]
        THEN Throws("set title", h)
        ELSE /\ title' = [title EXCEPT ![h] = value]
             /\ Outcome(IF title[h] # value THEN Sent("$setTitle", h) ELSE {}, {}, {})
             /\ UNCHANGED <<handlePool, webviews, isDisposed, html, viewColumn, disposeCalls,
                            disposeSent>>
    /\ UNCHANGED <<searchVars, foldingVars>>

\* set html
setHtml ==
    /\ \E h \in Created, value \in Htmls :
        IF isDisposed[h]
        THEN Throws("set html", h)
        ELSE /\ html' = [html EXCEPT ![h] = value]
             /\ Outcome(IF html[h] # value THEN Sent("$setHtml", h) ELSE {}, {}, {})
             /\ UNCHANGED <<handlePool, webviews, isDisposed, title, viewColumn, disposeCalls,
                            disposeSent>>
    /\ UNCHANGED <<searchVars, foldingVars>>

\* ExtHostWebview.postMessage
postMessage ==
    /\ \E h \in Created :
        /\ Outcome(Sent("$sendMessage", h), {}, {})
        /\ UNCHANGED <<handlePool, webviews, isDisposed, title, html, viewColumn,
                       disposeCalls, disposeSent>>
    /\ UNCHANGED <<searchVars, foldingVars>>

\* ExtHostWebview.show
show ==
    /\ \E h \in Created :
        /\ Outcome(Sent("$show", h), {}, {})
        /\ UNCHANGED <<handlePool, webviews, isDisposed, title, html, viewColumn,
                       disposeCalls, disposeSent>>
    /\ UNCHANGED <<searchVars, foldingVars>>

\* ExtHostWebviews.$onMessage
onMessage ==
    /\ \E handle \in Handles :
        /\ Outcome({}, {}, IF getWebview(handle) THEN Fire("onMessage", handle) ELSE {})
        /\ UNCHANGED <<handlePool, webviews, isDisposed, title, html, viewColumn,
                       disposeCalls, disposeSent>>
    /\ UNCHANGED <<searchVars, foldingVars>>

\* ExtHostWebviews.$onDidChangeActiveWeview: the emitter of ExtHostWebviews fires with
\* the webview of the handle, or with undefined
onDidChangeActiveWeview ==
    /\ \E handle \in Handles :
        /\ Outcome({}, {}, {[event |-> "onDidChangeActiveWebview",
                             handle |-> IF getWebview(handle) THEN handle ELSE -1]})
        /\ UNCHANGED <<handlePool, webviews, isDisposed, title, html, viewColumn,
                       disposeCalls, disposeSent>>
    /\ UNCHANGED <<searchVars, foldingVars>>

\* ExtHostWebviews.$onDidDisposeWeview
onDidDisposeWeview ==
    /\ \E handle \in Handles :
        /\ Outcome({}, {}, IF getWebview(handle) THEN Fire("onDispose", handle) ELSE {})
        /\ webviews' = webviews \ {handle}
        /\ UNCHANGED <<handlePool, isDisposed, title, html, viewColumn, disposeCalls,
                       disposeSent>>
    /\ UNCHANGED <<searchVars, foldingVars>>

\* ExtHostWebviews.$onDidChangePosition: the getter of viewColumn asserts first
changePosition(handle, newPosition) ==
    LET newViewColumn == toViewColumn(newPosition) IN
    IF getWebview(handle) /\ isDisposed[handle]
    THEN Throws("$onDidChangePosition", handle)
    ELSE IF getWebview(handle) /\ viewColumn[handle] # newViewColumn
    THEN /\ viewColumn' = [viewColumn EXCEPT ![handle] = newViewColumn]
         /\ Outcome({}, {}, Fire("onDidChangeViewColumn", handle))
         /\ UNCHANGED <<handlePool, webviews, isDisposed, title, html, disposeCalls,
                        disposeSent>>
    ELSE /\ Outcome({}, {}, {})
         /\ UNCHANGED <<handlePool, webviews, isDisposed, title, html, viewColumn,
                        disposeCalls, disposeSent>>

onDidChangePosition ==
    /\ \E handle \in Handles, newPosition \in Positions :
        changePosition(handle, newPosition)
    /\ UNCHANGED <<searchVars, foldingVars>>

\* no search is configured while the webviews are exercised
NoSearch ==
    /\ config = [rootFolders |-> << >>, extraFiles |-> << >>, filePattern |-> EmptyStr,
                 excludePattern |-> NoExpr, includePattern |-> NoExpr, maxResults |-> 0]
    /\ failing = {}

WebviewInit == Init /\ NoSearch

WebviewNext ==
    \/ createWebview
    \/ disposeWebview
    \/ setTitle
    \/ setHtml
    \/ postMessage
    \/ show
    \/ onMessage
    \/ onDidChangeActiveWeview
    \/ onDidDisposeWeview
    \/ onDidChangePosition

WebviewSpec == WebviewInit /\ [][WebviewNext]_vars

(***************************************************************************)
(* FoldingController (lines 1451-1660). A computation of regions is a      *)
(* record of the token it was started with and the model it read; it is    *)
(* marked stale when a newer one is started or the state is cleaned. The   *)
(* callback of its promise runs in a step of its own.                      *)
(***************************************************************************)
\* editor.getModel(): no model, or one of two
Models == 0..2

\* the regions of a view state handed to restoreViewState
ViewState == [token |-> 0, model |-> 0, stale |-> FALSE]

\* every computation under way is overtaken
Overtaken == {[r EXCEPT !.stale = TRUE] : r \in computing}

\* mutant of cleanState: the disposable of the decorations leaves computeToken alone
cleanState_KeepsToken ==
    [computeToken |-> computeToken,
     decorations |-> IF localToDispose THEN {} ELSE decorations]

\* FoldingController.cleanState: disposeAll(localToDispose) runs the disposable that
\* onModelChanged pushed, if there is one
cleanState ==
    [computeToken |-> IF localToDispose THEN computeToken + 1 ELSE computeToken,
     decorations |-> IF localToDispose THEN {} ELSE decorations]

\* FoldingController.onModelChanged, on an editor with the model m and the setting f
onModelChanged(m, f) ==
    /\ cleanState.computeToken <= MaxComputeToken
    /\ computeToken' = cleanState.computeToken
    /\ decorations' = cleanState.decorations
    /\ computing' = Overtaken
    /\ localToDispose' = (f /\ m # 0)
    /\ scheduled' = (f /\ m # 0)
    /\ UNCHANGED <<applied, controllerDisposed>>

\* the editor gets another model: EventType.ModelChanged, if the listener is still there
modelChanged ==
    /\ \E m \in Models \ {editorModel} :
        /\ editorModel' = m
        /\ IF controllerDisposed
           THEN UNCHANGED <<computeToken, localToDispose, scheduled, computing, decorations,
                            applied, controllerDisposed>>
           ELSE onModelChanged(m, folding)
    /\ UNCHANGED <<folding, searchVars, webviewVars>>

\* the folding setting changes: EventType.ConfigurationChanged with e.folding
configurationChanged ==
    /\ folding' = ~folding
    /\ IF controllerDisposed
       THEN UNCHANGED <<computeToken, localToDispose, scheduled, computing, decorations,
                        applied, controllerDisposed>>
       ELSE onModelChanged(editorModel, ~folding)
    /\ UNCHANGED <<editorModel, searchVars, webviewVars>>

\* the 'change' listener: contentChangedScheduler.schedule()
contentChanged ==
    /\ localToDispose
    /\ scheduled' = TRUE
    /\ UNCHANGED <<editorModel, folding, computeToken, localToDispose, computing, decorations,
                   applied, controllerDisposed, searchVars, webviewVars>>

\* the runner of contentChangedScheduler: a new request
schedulerFires ==
    /\ scheduled
    /\ computeToken < MaxComputeToken
    /\ scheduled' = FALSE
    /\ computeToken' = computeToken + 1
    /\ computing' = Overtaken \cup
                        {[token |-> computeToken + 1, model |-> editorModel, stale |-> FALSE]}
    /\ UNCHANGED <<editorModel, folding, localToDispose, decorations, applied,
                   controllerDisposed, searchVars, webviewVars>>

\* FoldingController.applyRegions
applyRegions(regions) == IF editorModel = 0 THEN decorations ELSE {regions}

\* the callback of computeCollapsibleRegions().then
computeResolves ==
    /\ \E r \in computing :
        /\ computing' = computing \ {r}
        /\ IF r.token # computeToken
           THEN UNCHANGED <<decorations, applied>>
           ELSE /\ decorations' = applyRegions(r)
                /\ applied' = applied \cup {r}
    /\ UNCHANGED <<editorModel, folding, computeToken, localToDispose, scheduled,
                   controllerDisposed, searchVars, webviewVars>>

\* FoldingController.restoreViewState
restoreViewState ==
    /\ decorations' = applyRegions(ViewState)
    /\ UNCHANGED <<editorModel, folding, computeToken, localToDispose, scheduled, computing,
                   applied, controllerDisposed, searchVars, webviewVars>>

\* FoldingController.dispose
disposeController ==
    /\ cleanState.computeToken <= MaxComputeToken
    /\ computeToken' = cleanState.computeToken
    /\ decorations' = cleanState.decorations
    /\ computing' = Overtaken
    /\ localToDispose' = FALSE
    /\ scheduled' = FALSE
    /\ controllerDisposed' = TRUE
    /\ UNCHANGED <<editorModel, folding, applied, searchVars, webviewVars>>

FoldingInit == Init /\ NoSearch

FoldingNext ==
    \/ modelChanged
    \/ configurationChanged
    \/ contentChanged
    \/ schedulerFires
    \/ computeResolves
    \/ restoreViewState
    \/ disposeController

FoldingSpec == FoldingInit /\ [][FoldingNext]_vars

(***************************************************************************)
(* Vocabulary of the claims.                                               *)
(***************************************************************************)
\* the sum of the counts of the bag b over the elements in S
RECURSIVE BagSum(_, _)
BagSum(b, S) ==
    IF S = {} THEN 0
    ELSE LET x == CHOOSE y \in S : TRUE IN b[x] + BagSum(b, S \ {x})

\* how many times onResult was invoked
NumResults == BagSum(results, DOMAIN results)

\* the paths of the results delivered so far
Delivered == {r.path : r \in DOMAIN results}

\* how many times the path was delivered
Times(p) == BagSum(results, {r \in DOMAIN results : r.path = p})

\* walk() has been called and every filesystem call it started has returned
Settled == started /\ pending = {}

IsPrefix(a, b) == Len(a) <= Len(b) /\ SubSeq(b, 1, Len(a)) = a

\* the path p lies below the directory d
Below(d, p) == IsPrefix(d \o <<Sep>>, p)

\* the path of p relative to the directory d it lies below
RelativeTo(d, p) == SubSeq(p, Len(d) + 2, Len(p))

\* filePattern is the absolute path of an existing file that is no directory
AbsoluteHit ==
    /\ isAbsolute(filePattern)
    /\ ~Fails("stat", filePattern)
    /\ ~statOf(filePattern).isDirectory

(***************************************************************************)
(* C1: for every call of walk, whatever the roots, the extra files, the    *)
(* outcome of each filesystem call, the order of the callbacks and the     *)
(* moment of cancel(), done is invoked exactly once: never twice, and once *)
(* every filesystem callback has returned it has been invoked.             *)
(***************************************************************************)
C1_DoneExactlyOnce ==
    /\ Len(doneArgs) <= 1
    /\ Settled => Len(doneArgs) = 1

\* a cancelled search over two roots with a failing call has walked a directory and
\* finished
C1_Witness ==
    /\ Settled
    /\ Len(doneArgs) = 1
    /\ Len(rootFolders) = 2
    /\ failing # {}
    /\ isCanceled
    /\ DOMAIN entered # {}

(***************************************************************************)
(* C2: with maxResults = N > 0, onResult is invoked at most N times in one *)
(* search, over all the ways a result is reported.                         *)
(***************************************************************************)
C2_AtMostMaxResults == maxResults > 0 => NumResults <= maxResults

(***************************************************************************)
(* C3: once cancel() has been called after walk() began, done is           *)
(* eventually invoked (every filesystem call returning), and no callback   *)
(* that finds the canceled flag set invokes onResult.                      *)
(***************************************************************************)
C3_CancelCompletes ==
    /\ (started /\ isCanceled) ~> (Len(doneArgs) = 1)
    /\ [][isCanceled => results' = results]_vars

\* a search over /r alone, with nothing excluded, failing or capped, was cancelled after
\* its first result and finished without entering /r/a
C3_Witness ==
    /\ isCanceled
    /\ Len(doneArgs) = 1
    /\ rootFolders = <<P_r>>
    /\ excludePattern = NoExpr
    /\ failing = {}
    /\ maxResults = 0
    /\ NumResults = 1
    /\ P_r \in DOMAIN entered
    /\ P_ra \notin DOMAIN entered

(***************************************************************************)
(* C4: within one search each real directory is entered (read and walked)  *)
(* at most once, whatever the list of root folders.                        *)
(***************************************************************************)
C4_EnteredAtMostOnce == \A d \in DOMAIN entered : entered[d] <= 1

(***************************************************************************)
(* C5: every search that is not cancelled terminates, also when a          *)
(* directory holds a symbolic link to an ancestor (/r/l -> /r): done is    *)
(* eventually invoked.                                                     *)
(***************************************************************************)
C5_WalkTerminates == started ~> (isCanceled \/ Len(doneArgs) = 1)

\* an uncancelled search has met the link /r/l, reported it as a file and finished
C5_Witness ==
    /\ ~isCanceled
    /\ Len(doneArgs) = 1
    /\ P_rl \in Delivered
    /\ P_r \in DOMAIN entered

(***************************************************************************)
(* What a search is to deliver, read off the filesystem instead of the     *)
(* walk.  absent is a set of paths taken to be missing from the listings.  *)
(***************************************************************************)
RECURSIVE JoinSegs(_)
JoinSegs(segs) ==
    IF Len(segs) = 0 THEN EmptyStr
    ELSE IF Len(segs) = 1 THEN segs[1]
    ELSE joinSlash(segs[1], JoinSegs(Tail(segs)))

\* the listing of the directory d without the absent entries
Listing(d, absent) ==
    LET Present(n) == pathsJoin(d, n) \notin absent
    IN SelectSeq(FSChildren[d], Present)

\* no segment of the root-relative path rel is excluded in its directory
NotExcluded(root, rel, absent) ==
    LET segs == Segments(rel)
        dirOf(j) == IF j = 1 THEN root ELSE pathsJoin(root, JoinSegs(SubSeq(segs, 1, j - 1)))
    IN \A j \in 1..Len(segs) :
           ~globMatch(excludePattern, JoinSegs(SubSeq(segs, 1, j)),
                      siblingsOf(Listing(dirOf(j), absent), segs[j]))

\* the file-match test of a path: the file pattern and the include pattern
PassesTests(rel) ==
    /\ Len(filePattern) > 0 => matchesFuzzy(filePattern, rel)
    /\ includePattern.kind # "none" => globMatch(includePattern, rel, << >>)

\* the entries that are no directories: what the walk takes for files
NonDirs == {p \in DOMAIN FSKind : FSKind[p] # "dir"}

\* p is an entry below the k-th root that passes the exclude, pattern and include tests
Candidate(k, p, absent) ==
    /\ rootFolders[k] \notin absent
    /\ Below(rootFolders[k], p)
    /\ \A q \in absent : q # p /\ ~Below(q, p)
    /\ NotExcluded(rootFolders[k], RelativeTo(rootFolders[k], p), absent)
    /\ PassesTests(RelativeTo(rootFolders[k], p))

ExtraCandidates ==
    {extraFiles[i] : i \in {j \in 1..Len(extraFiles) :
        ~globMatch(excludePattern, extraFiles[j], << >>) /\ PassesTests(extraFiles[j])}}

Candidates(absent) ==
    ExtraCandidates \cup {p \in NonDirs : \E k \in 1..Len(rootFolders) : Candidate(k, p, absent)}

\* the files named by a relative file pattern below a root
RelativeHits(absent) ==
    IF Len(filePattern) = 0 \/ isAbsolute(filePattern) \/ ~searchInPath THEN {}
    ELSE {pathsJoin(rootFolders[k], filePattern) : k \in
            {j \in 1..Len(rootFolders) :
                /\ rootFolders[j] \notin absent
                /\ pathsJoin(rootFolders[j], filePattern) \in NonDirs \ absent}}

\* the paths a search delivers when it is neither cancelled nor capped
Expected(absent) ==
    IF isAbsolute(filePattern) /\ filePattern \in DOMAIN FSKind /\ FSKind[filePattern] = "file"
    THEN {filePattern}
    ELSE ExtraCandidates \cup RelativeHits(absent)
         \cup {p \in NonDirs : \E k \in 1..Len(rootFolders) :
                  Candidate(k, p, absent) /\ RelativeTo(rootFolders[k], p) # filePattern}

FailingPaths == {f[2] : f \in failing}

AtOrBelowFailing(p) == \E q \in FailingPaths : p = q \/ Below(q, p)

(***************************************************************************)
(* C6: with no file pattern, no include or exclude pattern, no cap, no     *)
(* cancel and no filesystem error, every regular file below a root folder  *)
(* is delivered exactly once, for every list of root folders.              *)
(***************************************************************************)
C6_EachFileOnce ==
    (/\ Len(doneArgs) = 1
     /\ Len(filePattern) = 0
     /\ includePattern = NoExpr
     /\ excludePattern = NoExpr
     /\ maxResults = 0
     /\ ~isCanceled
     /\ failing = {})
    => \A p \in DOMAIN FSKind :
           (FSKind[p] = "file" /\ \E k \in 1..Len(rootFolders) : Below(rootFolders[k], p))
           => Times(p) = 1

(***************************************************************************)
(* C7: when the file pattern is the absolute path of an existing file that *)
(* is no directory, no root folder is read and no extra file is looked at; *)
(* unless the search is cancelled before the stat returns, onResult is     *)
(* invoked exactly once, with that path, and done with no error and        *)
(* limit-hit false.                                                        *)
(***************************************************************************)
C7_AbsoluteFastPath ==
    AbsoluteHit =>
        /\ joins = << >>
        /\ entered = << >>
        /\ resultCount = 0
        /\ \A op \in pending : op.kind = "statAbs"
        /\ (Settled /\ ~isCanceled) =>
               /\ results = ([path |-> filePattern, via |-> "abs", ri |-> 0] :> 1)
               /\ doneArgs = <<[error |-> FALSE, isLimitHit |-> FALSE]>>

\* the stat of the absolute pattern has returned in a search that has two roots, an
\* extra file and a cap of one
C7_Witness ==
    /\ AbsoluteHit
    /\ Settled
    /\ ~isCanceled
    /\ NumResults = 1
    /\ Len(rootFolders) = 2
    /\ Len(extraFiles) = 1
    /\ maxResults = 1

(***************************************************************************)
(* C8: with an exclude pattern, here one that excludes every path with a   *)
(* given segment, no file whose root-relative path matches it is           *)
(* delivered, whatever the file pattern.                                   *)
(***************************************************************************)
C8_NoExcludedResult ==
    excludePattern.kind = "segment" =>
        \A r \in DOMAIN results : \A k \in 1..Len(rootFolders) :
            (/\ r.ri \in {0, k}
             /\ Below(rootFolders[k], r.path))
            => ~globMatch(excludePattern, RelativeTo(rootFolders[k], r.path), << >>)

(***************************************************************************)
(* C9: in a search with maxResults = N > 0 that is not cancelled and meets *)
(* no filesystem error, done is invoked with limit-hit true when more than *)
(* N files (over the extra files and all roots) pass the exclude, pattern  *)
(* and include tests, and with limit-hit false otherwise.                  *)
(***************************************************************************)
C9_LimitHitIffMore ==
    (/\ Len(doneArgs) = 1
     /\ maxResults > 0
     /\ ~isCanceled
     /\ failing = {})
    => (doneArgs[1].isLimitHit <=> Cardinality(Candidates({})) > maxResults)

(***************************************************************************)
(* C10: a failing lstat or readdir never stops the other branches.         *)
(* As amended: in a search that is neither cancelled nor capped, every     *)
(* path that is delivered when no call fails, and that is neither the      *)
(* failing entry nor below it, is still delivered, and nothing else is;    *)
(* the failing entry still counts as a sibling in its directory.           *)
(***************************************************************************)
C10_Precondition ==
    /\ Settled
    /\ ~isCanceled
    /\ maxResults = 0
    /\ \A f \in failing : f[1] \in {"lstat", "readdir"}

BranchErrors == {e \in fsErrors : e[1] \in {"readdir", "lstat", "realpath"}}

C11_FirstErrorSurfaced ==
    (Len(doneArgs) = 1 /\ BranchErrors # {}) => (doneArgs[1].error /\ pending = {})

(***************************************************************************)
(* C12: a relative file pattern (one with a separator) that names an       *)
(* existing file below a root has that file delivered at most once for     *)
(* that root: the relative fast path reports it and the walk of the same   *)
(* root never reports it again, in every interleaving.                     *)
(***************************************************************************)
\* how many times the root k has delivered the path p
TimesFor(k, p) == BagSum(results, {r \in DOMAIN results : r.ri = k /\ r.path = p})

C12_RelativeHitOnce ==
    (searchInPath /\ ~isAbsolute(filePattern)) =>
        \A k \in 1..Len(rootFolders) : TimesFor(k, pathsJoin(rootFolders[k], filePattern)) <= 1

\* the fast path of /r has reported /r/a/f and the walk of /r has gone through /r/a
C12_Witness ==
    /\ Settled
    /\ ~isCanceled
    /\ maxResults = 0
    /\ failing = {}
    /\ excludePattern = NoExpr
    /\ includePattern = NoExpr
    /\ rootFolders = <<P_r>>
    /\ [path |-> P_raf, via |-> "rel", ri |-> 1] \in DOMAIN results
    /\ P_ra \in DOMAIN entered

(***************************************************************************)
(* C13: two runs of the same search (same configuration, same filesystem,  *)
(* no cancel) deliver the same set of result paths, whatever the order in  *)
(* which the filesystem callbacks complete, also with a cap that is lower  *)
(* than the number of candidates.                                          *)
(***************************************************************************)
C13_SameResultSet ==
    (previous.ran /\ Settled /\ Len(doneArgs) = 1) => Delivered = previous.paths

(***************************************************************************)
(* C14: every result delivered passes the file-match test: with a file     *)
(* pattern its path fuzzy-matches the pattern, and with an include pattern *)
(* its path satisfies the include pattern, whichever way it was reported   *)
(* (extra file, walked entry, absolute or relative fast path).             *)
(***************************************************************************)
\* the path the test is made on: the root-relative path of a walked entry, the path as
\* given of an extra file
TestedPath(r) == IF r.ri = 0 THEN r.path ELSE RelativeTo(rootFolders[r.ri], r.path)

C14_ResultsPassMatchTest ==
    \A r \in DOMAIN results :
        \/ PassesTests(TestedPath(r))
        \/ (r.via # "match" /\ PassesTests(r.path))

(***************************************************************************)
(* C15: done is invoked only when all work has settled: from the moment    *)
(* done has been invoked, no filesystem callback of the search is          *)
(* outstanding and onResult is not invoked again.                          *)
(***************************************************************************)
C15_DoneAfterAllSettled ==
    /\ [](Len(doneArgs) >= 1 => pending = {})
    /\ [][Len(doneArgs) >= 1 => results' = results]_vars

\* done was invoked at the end of a walk of two roots that went through /r/a and
\* delivered at least three results
C15_Witness ==
    /\ Len(doneArgs) = 1
    /\ Len(rootFolders) = 2
    /\ P_ra \in DOMAIN entered
    /\ NumResults >= 3
    /\ ~isCanceled

(***************************************************************************)
(* C16: Engine.search hands the root folders and the extra files of the    *)
(* configuration unchanged to the walk of its one FileWalker (the roots    *)
(* read are those of the configuration, the extra files reported are among *)
(* its extra files) and never invokes onProgress; Engine.cancel does what  *)
(* the walker's cancel() does: it sets the canceled flag and nothing else. *)
(***************************************************************************)
C16_Forwarded ==
    /\ rootFolders = config.rootFolders
    /\ extraFiles = config.extraFiles
    /\ Top \in DOMAIN joins => joins[Top].total = Len(config.rootFolders)
    /\ \A op \in pending : op.kind = "readdirRoot" => op.path = config.rootFolders[op.ri]
    /\ \A r \in DOMAIN results :
           (r.ri = 0 /\ r.via = "match") =>
               \E i \in 1..Len(config.extraFiles) : config.extraFiles[i] = r.path
    /\ progress = << >>

C16_EngineDelegates ==
    /\ []C16_Forwarded
    /\ [][isCanceled' # isCanceled => (isCanceled' /\ UNCHANGED walkVars)]_vars

\* a search with three extra files and two roots was cancelled while both roots were
\* being read
C16_Witness ==
    /\ isCanceled
    /\ Len(config.rootFolders) = 2
    /\ Cardinality({op \in pending : op.kind = "readdirRoot"}) = 2
    /\ [path |-> P_ah, via |-> "match", ri |-> 0] \in DOMAIN results

(***************************************************************************)
(* C17: in matchFile the call that raises resultCount above maxResults     *)
(* sets limitHit and does not invoke onResult; limitHit is never reset,    *)
(* and no later call of matchFile invokes onResult.  So the results of     *)
(* matchFile number resultCount up to the cap and maxResults beyond it.    *)
(***************************************************************************)
\* how many times matchFile has invoked onResult
MatchResults == BagSum(results, {r \in DOMAIN results : r.via = "match"})

C17_Counted ==
    /\ isLimitHit <=> (maxResults > 0 /\ resultCount > maxResults)
    /\ MatchResults = IF maxResults > 0 /\ resultCount > maxResults
                      THEN maxResults ELSE resultCount

C17_CrossingSwallowed ==
    /\ []C17_Counted
    /\ [][isLimitHit => (isLimitHit' /\ results' = results)]_vars

\* with a cap of two and no extra file, the walk has counted a third match and set
\* limitHit
C17_Witness ==
    /\ maxResults = 2
    /\ extraFiles = << >>
    /\ isLimitHit
    /\ resultCount = 3
    /\ MatchResults = 2

(***************************************************************************)
(* C18: in every reachable state of a search resultCount is the number of  *)
(* onResult invocations made so far.                                       *)
(***************************************************************************)
C18_CountIsDelivered == resultCount = NumResults

(***************************************************************************)
(* C19: resultCount never decreases during a search and, with maxResults   *)
(* set, never exceeds maxResults + 1, however many extra files and walked  *)
(* entries pass the match test.                                            *)
(***************************************************************************)
C19_CountBounded ==
    /\ [][resultCount' >= resultCount]_vars
    /\ [](maxResults > 0 => resultCount <= maxResults + 1)

(***************************************************************************)
(* C20: whenever the walker starts a filesystem operation (stat, lstat,    *)
(* readdir, realpath) neither canceled nor limitHit is true at that        *)
(* moment; in particular no root folder is read once the pass over the     *)
(* extra files has set limitHit.                                           *)
(***************************************************************************)
C20_NoCallOnceStopped ==
    [][\A op \in pending' \ pending : ~isCanceled' /\ ~isLimitHit']_vars

(***************************************************************************)
(* C21: when cancel() is called before the absolute-path check of walk()   *)
(* resolves (before walk, or while its stat is in flight), done is invoked *)
(* with no error and limit-hit false, onResult is never invoked and no     *)
(* extra file or root folder is examined, also when the file pattern names *)
(* an existing file.                                                       *)
(***************************************************************************)
\* canceled, and the absolute-path check has not resolved yet
CanceledBeforeCheck ==
    isCanceled /\ (~started \/ \E op \in pending : op.kind = "statAbs")

C21_CancelBeforeCheck ==
    [][CanceledBeforeCheck =>
          /\ results' = << >>
          /\ resultCount' = 0
          /\ joins' = << >>
          /\ entered' = << >>
          /\ \A op \in pending' : op.kind = "statAbs"
          /\ (started' /\ pending' = {}) =>
                 doneArgs' = <<[error |-> FALSE, isLimitHit |-> FALSE]>>]_vars

\* the pattern names an existing file, the search with three extra files and two roots
\* was cancelled before the stat returned, and it is over without a result
C21_Witness ==
    /\ AbsoluteHit
    /\ isCanceled
    /\ Settled
    /\ results = << >>
    /\ Len(doneArgs) = 1
    /\ Len(extraFiles) = 3
    /\ Len(rootFolders) = 2

(***************************************************************************)
(* C22: every file that the walk of a root skips because its root-relative *)
(* path equals the file pattern is delivered by the relative fast path of  *)
(* that root, so it is delivered exactly once for the root; for every file *)
(* pattern, a plain file name without a separator included.                *)
(***************************************************************************)
C22_SkippedIsDelivered ==
    (/\ Settled
     /\ ~isCanceled
     /\ maxResults = 0
     /\ failing = {}
     /\ excludePattern = NoExpr
     /\ includePattern = NoExpr
     /\ Len(filePattern) > 0
     /\ ~isAbsolute(filePattern))
    => \A k \in 1..Len(rootFolders) :
           pathsJoin(rootFolders[k], filePattern) \in NonDirs
           => TimesFor(k, pathsJoin(rootFolders[k], filePattern)) = 1

(***************************************************************************)
(* C23: each extra file is tested against the exclude pattern with no      *)
(* sibling list and is delivered iff it is not excluded and passes the     *)
(* file-match test, up to the cap; no extra file is read as a directory,   *)
(* and all of them are processed before any root folder is read.           *)
(***************************************************************************)
ExtraPasses(p) == ~globMatch(excludePattern, p, << >>) /\ PassesTests(p)

\* the extra files that are due: those that pass, in the order of the list, up to the cap
ExtraDue ==
    LET passing == SelectSeq(extraFiles, ExtraPasses)
        n == IF maxResults > 0 /\ Len(passing) > maxResults THEN maxResults ELSE Len(passing)
    IN {passing[i] : i \in 1..n}

\* the results that come from the extra files
ExtraDelivered == {r \in DOMAIN results : r.ri = 0 /\ r.via = "match"}

C23_ExtraFiles ==
    /\ Top \notin DOMAIN joins => ExtraDelivered = {}
    /\ Top \in DOMAIN joins =>
           /\ {r.path : r \in ExtraDelivered} = ExtraDue
           /\ \A r \in ExtraDelivered : results[r] = 1
    /\ ((\E op \in pending : op.kind # "statAbs") \/ entered # << >>) => Top \in DOMAIN joins
    /\ \A op \in pending : \A i \in 1..Len(extraFiles) : op.path # extraFiles[i]

\* of three extra files the one with an excluded segment was left out and the other two
\* were delivered before the root was read
C23_Witness ==
    /\ excludePattern = SegmentExpr(N_a)
    /\ Len(extraFiles) = 3
    /\ {r.path : r \in ExtraDelivered} = {P_xf, P_xg}
    /\ \E op \in pending : op.kind = "readdirRoot"
    /\ entered = << >>

(***************************************************************************)
(* C24: for each root the result of the relative fast path (if any) is     *)
(* delivered before any result of the walk of that root: it is delivered   *)
(* when the walk of the root has not started, and the walk delivers only   *)
(* once it has started.  The read of the root's directory is the first     *)
(* filesystem operation of the root's branch.                              *)
(***************************************************************************)
\* the walk of the k-th root has started
WalkStarted(k) == Group(k, rootFolders[k]) \in DOMAIN joins

\* the result of the relative fast path of the k-th root
RelativeResult(k) == [path |-> pathsJoin(rootFolders[k], filePattern), via |-> "rel", ri |-> k]

C24_RootBranch ==
    /\ \A r \in DOMAIN results :
           r.ri > 0 => (r.via = "rel" \/ WalkStarted(r.ri))
    /\ \A r \in DOMAIN results :
           r.via = "rel" => (r = RelativeResult(r.ri) /\ results[r] = 1)
    /\ \A op \in pending : \A other \in pending :
           (op.kind = "readdirRoot" /\ other.ri = op.ri) => other = op

EntryExcluded(k, d, n) ==
    globMatch(excludePattern, RelativeTo(rootFolders[k], pathsJoin(d, n)),
              IF n = config.filePattern THEN << >> ELSE FSChildren[d])

\* the paths of the entries of d that the walk of the k-th root is to stat
EntriesDue(k, d) ==
    {pathsJoin(d, FSChildren[d][i]) : i \in {j \in 1..Len(FSChildren[d]) :
                                               ~EntryExcluded(k, d, FSChildren[d][j])}}

\* the directory and the name of a path
DirOf(p) == CHOOSE d \in DOMAIN FSChildren : \E i \in 1..Len(FSChildren[d]) :
                pathsJoin(d, FSChildren[d][i]) = p

NameOf(p) == SubSeq(p, Len(DirOf(p)) + 2, Len(p))

C25_NoExcludedEntry ==
    /\ \A op \in pending :
           op.kind \in {"lstat", "realpath", "readdir"}
           => ~EntryExcluded(op.ri, op.dir, NameOf(op.path))
    /\ \A r \in DOMAIN results :
           (r.via = "match" /\ r.ri > 0) => ~EntryExcluded(r.ri, DirOf(r.path), NameOf(r.path))

C25_ExcludeSiblings ==
    /\ []C25_NoExcludedEntry
    /\ [][\A g \in (DOMAIN joins') \ (DOMAIN joins) :
             g # Top =>
                 {op.path : op \in {o \in pending' : o.ri = g[1] /\ o.dir = g[2]}}
                     = EntriesDue(g[1], g[2])]_vars

\* the pattern is the name f, the exclude pattern drops f next to g, and the walk of /r
\* has delivered /r/a/f while g is its sibling
C25_Witness ==
    /\ excludePattern = SiblingExpr(N_f, N_g)
    /\ config.filePattern = N_f
    /\ rootFolders = <<P_r>>
    /\ [path |-> P_raf, via |-> "match", ri |-> 1] \in DOMAIN results

(***************************************************************************)
(* C26: when the read of a root folder fails, or canceled or limitHit is   *)
(* set when it returns, the branch of that root ends without a result and  *)
(* without reporting an error, and the other roots are still walked to     *)
(* completion.                                                             *)
(***************************************************************************)
\* the read of the root op returns in this step and ends the root's branch
RootReadEnds(op) ==
    /\ op.kind = "readdirRoot"
    /\ op \in pending
    /\ op \notin pending'
    /\ Fails("readdir", op.path) \/ isCanceled \/ isLimitHit

\* a failing call lies between the k-th root and the path p below it
FailsAbove(k, p) ==
    \E q \in FailingPaths : (q = p \/ Below(q, p)) /\ Below(rootFolders[k], q)

C26_RootBranchEnds ==
    [][\A op \in pending : RootReadEnds(op) =>
          /\ results' = results
          /\ resultCount' = resultCount
          /\ \A o \in pending' : o.ri # op.ri
          /\ ~WalkStarted(op.ri)'
          /\ joins'[Top].errors = {}
          /\ joins'[Top].doneCount = joins[Top].doneCount + 1]_vars

C26_OtherRootsWalked ==
    /\ \A r \in DOMAIN results : r.ri > 0 => ~Fails("readdir", rootFolders[r.ri])
    /\ (/\ Settled
        /\ ~isCanceled
        /\ maxResults = 0
        /\ \E k \in 1..Len(rootFolders) : Fails("readdir", rootFolders[k]))
       => /\ doneArgs = <<[error |-> FALSE, isLimitHit |-> FALSE]>>
          /\ \A j \in 1..Len(rootFolders) : \A p \in NonDirs :
                 (/\ ~Fails("readdir", rootFolders[j])
                  /\ Candidate(j, p, {})
                  /\ RelativeTo(rootFolders[j], p) # filePattern
                  /\ ~FailsAbove(j, p))
                 => [path |-> p, via |-> "match", ri |-> j] \in DOMAIN results

C26_FailedRootIsSilent == C26_RootBranchEnds /\ []C26_OtherRootsWalked

\* the read of /r failed, its branch delivered nothing, and the root /r/a was walked
C26_Witness ==
    /\ failing = {<<"readdir", P_r>>}
    /\ rootFolders = <<P_r, P_ra>>
    /\ Settled
    /\ ~isCanceled
    /\ {r \in DOMAIN results : r.ri = 2} =
           {[path |-> P_raf, via |-> "match", ri |-> 2], [path |-> P_rag, via |-> "match", ri |-> 2]}

(***************************************************************************)
(* C27: the walk state (visited real paths, resultCount, limitHit,         *)
(* canceled) is created afresh at the start of each walk(): a second       *)
(* walk() on the same walker, after the first is over, starts with an      *)
(* empty visited set, resultCount 0 and both flags false, and so delivers  *)
(* the results of the first.                                               *)
(***************************************************************************)
C27_FreshWalkState ==
    /\ (previous.ran /\ ~started) =>
           /\ walkedPaths = {}
           /\ resultCount = 0
           /\ ~isLimitHit
           /\ ~isCanceled
    /\ (previous.ran /\ Settled /\ Len(doneArgs) = 1 /\ maxResults = 0 /\ ~isCanceled) =>
           Delivered = previous.paths

(***************************************************************************)
(* C28: the visited check and the visited insert of a directory's real     *)
(* path are atomic with respect to the other branches: in no interleaving  *)
(* of the filesystem callbacks do two branches both pass the check for the *)
(* same real path and both recurse into it.                                *)
(***************************************************************************)
\* the branches that have passed the visited check for d: those reading d and those
\* walking it
Recursing(d) ==
    {op \in pending : op.kind = "readdir" /\ op.path = d}
        \cup {g \in DOMAIN joins : g # Top /\ g[2] = d /\ joins[g].parent # Top}

C28_OnePassPerPath == \A d \in DOMAIN FSChildren : Cardinality(Recursing(d)) <= 1

C28_AtomicVisit ==
    /\ []C28_OnePassPerPath
    /\ [][\A op \in pending' \ pending :
             op.kind = "readdir" => (op.path \notin walkedPaths /\ op.path \in walkedPaths')]_vars

\* two branches, one per root, have both met /r/a: one was let in and the other refused
C28_Witness ==
    /\ rootFolders = <<P_r, P_r>>
    /\ Settled
    /\ ~isCanceled
    /\ maxResults = 0
    /\ failing = {}
    /\ excludePattern = NoExpr
    /\ walkedPaths = {P_ra}
    /\ entered = (P_r :> 2) @@ (P_ra :> 1)

(***************************************************************************)
(* C29: cancel() only sets the canceled flag: it leaves resultCount,       *)
(* limitHit and the visited set unchanged and invokes no callback; it can  *)
(* be called at any time (before, during and after the walk, and again),   *)
(* and the flag is never reset to false.                                   *)
(***************************************************************************)
C29_CancelOnlySetsFlag ==
    /\ [](ENABLED cancel)
    /\ [][isCanceled => isCanceled']_vars
    /\ [][isCanceled' # isCanceled =>
             UNCHANGED <<resultCount, isLimitHit, walkedPaths, results, doneArgs, progress,
                         pending, joins, started>>]_vars

\* cancel() was called when the walk of /r had delivered everything
C29_Witness ==
    /\ isCanceled
    /\ Settled
    /\ rootFolders = <<P_r>>
    /\ extraFiles = << >>
    /\ Len(filePattern) = 0
    /\ Delivered = {P_raf, P_rag, P_rl}

(***************************************************************************)
(* C30: once cancel() has returned, onResult is never invoked again in     *)
(* that search, in any interleaving of the filesystem callbacks still in   *)
(* flight: every callback checks the canceled flag before it reports.      *)
(***************************************************************************)
C30_NoResultAfterCancel == [][isCanceled => results' = results]_vars

\* the walk of /r was cancelled with the lstat calls of /r/a in flight: they returned
\* and nothing of /r/a was delivered
C30_Witness ==
    /\ isCanceled
    /\ Settled
    /\ rootFolders = <<P_r>>
    /\ extraFiles = << >>
    /\ Len(filePattern) = 0
    /\ excludePattern = NoExpr
    /\ includePattern = NoExpr
    /\ maxResults = 0
    /\ failing = {}
    /\ P_ra \in DOMAIN entered
    /\ Delivered = {P_rl}

(***************************************************************************)
(* C31: the error handed to done is null in every execution: whatever      *)
(* stat, lstat, realpath or readdir fails, at a root or at an entry, the   *)
(* failure is a silent skip and never reaches done.                        *)
(***************************************************************************)
C31_DoneErrorIsNull == \A i \in 1..Len(doneArgs) : ~doneArgs[i].error

\* done was invoked after the callback of a failing lstat of the walk had run
C31_Witness ==
    /\ Len(doneArgs) = 1
    /\ ~isCanceled
    /\ \E e \in fsErrors : e[1] = "lstat"
    /\ NumResults >= 1

(***************************************************************************)
(* C32: whenever done is invoked with limit-hit true, at least maxResults  *)
(* results have been delivered to onResult, and exactly maxResults of them *)
(* through matchFile.                                                      *)
(***************************************************************************)
C32_LimitHitMeansCapReached ==
    \A i \in 1..Len(doneArgs) :
        doneArgs[i].isLimitHit =>
            /\ maxResults > 0
            /\ NumResults >= maxResults
            /\ MatchResults = maxResults

\* with a cap of two, a walk of two roots was ended by the cap and done got limit-hit
C32_Witness ==
    /\ Len(doneArgs) = 1
    /\ doneArgs[1].isLimitHit
    /\ maxResults = 2
    /\ Len(rootFolders) = 2
    /\ DOMAIN entered # {}
    /\ MatchResults = 2

\* C33: ExtHostWebview.dispose is idempotent. Whatever was done with a webview,
\* $disposeWebview was sent for its handle once if dispose() was called at all and never
\* otherwise, and a dispose() call after the first one changes no field of any webview,
\* sends nothing to the proxy, throws nothing and fires no event.
C33_DisposeOnce ==
    /\ [](\A h \in Created : disposeSent[h] = IF disposeCalls[h] >= 1 THEN 1 ELSE 0)
    /\ [][\A h \in Created :
              (disposeCalls[h] >= 1 /\ disposeCalls'[h] # disposeCalls[h]) =>
                  /\ UNCHANGED <<handlePool, webviews, isDisposed, title, html, viewColumn,
                                 disposeSent>>
                  /\ proxySent' = {} /\ thrown' = {} /\ fired' = {}]_vars

\* dispose() was called twice on a webview that had been given a title, and the webview
\* was used again afterwards
C33_Witness ==
    \E h \in Created :
        /\ disposeCalls[h] = 2
        /\ disposeSent[h] = 1
        /\ title[h] # Undefined
        /\ thrown = {[op |-> "set html", handle |-> h]}

\* C34: once dispose() has been called on a webview, no operation of it reaches the
\* main-thread proxy: no proxy call is sent for the handle of a webview that is disposed.
\* Violated: postMessage and show do not call assertNotDisposed.
C34_NoProxyCallAfterDispose == \A m \in proxySent : ~m.disposed

\* C35: no event arriving from the main thread throws, whatever its order relative to a
\* local dispose(): the only operations that throw are the setters of a disposed webview.
\* Violated: $onDidChangePosition reads webview.viewColumn, whose getter asserts, for a
\* webview that was disposed locally and is still in the map.
C35_EventsNeverThrow == \A e \in thrown : e.op \in {"set title", "set html"}

\* C36: the regions computed for a request are applied only if, since the request was
\* issued, no newer request was started and the state was not cleaned (model change,
\* folding setting change, dispose): no result that was handed to applyRegions was stale,
\* and the decorations never come from a stale computation.
C36_NoStaleRegions ==
    /\ \A r \in applied : ~r.stale
    /\ \A r \in decorations : ~r.stale

\* every callback has run: the computations that were overtaken, by a newer request or by
\* a change of the model, applied nothing, and the last one, made on the new model, was
\* applied
C36_Witness ==
    /\ computeToken = 3
    /\ computing = {}
    /\ editorModel = 2
    /\ applied = {[token |-> 3, model |-> 2, stale |-> FALSE]}
    /\ decorations = applied
====
